---- MODULE Spec2Model ----
(***************************************************************************)
(* Model of opentrons/instruments/magbead.py: the Magbead instrument, its  *)
(* construction and its three commands (engage, disengage, delay), each    *)
(* split in a setup phase and a do phase and routed through the            *)
(* instrument's create_command either to the robot's command queue or to   *)
(* immediate execution.                                                    *)
(*                                                                         *)
(* Python values: an optional argument is a sequence of length 0 (None) or *)
(* 1 (the value); strings are TLA+ strings; a motor handle is the mosfet   *)
(* index it was resolved from.  The mock motors record every invocation in *)
(* `log`, the robot's pending commands are `commands`, the caller's record *)
(* of the calls it made is `calls`, the command descriptors handed to      *)
(* create_command are `descriptors` (one per call) and the outcome of the  *)
(* latest step is `last`.                                                  *)
(***************************************************************************)
EXTENDS Integers, Sequences, FiniteSets, TLC

VARIABLES inst, registry, calibrations, commands, log, calls, descriptors, last

vars ==
  <<inst, registry, calibrations, commands, log, calls, descriptors, last>>

(* ---------------------------------------------------------------------- *)
(* Bounds and input sets                                                   *)
(* ---------------------------------------------------------------------- *)

\* Number of engage/disengage/delay calls made over a behaviour.
MaxCalls == 3

\* The Magbead objects that may be constructed.
Ids == {1, 2}

None == <<>>

Some(v) == <<v>>

\* Constructor inputs <<name, mosfet, container, stored calibration data>>
\* of the command models: the defaults, and an explicit name on mosfet 1.
CmdInputs ==
  { <<None, 0, None, <<>>>>, <<Some("a"), 1, Some("plate"), <<"cal">>>> }

\* Values of `seconds` passed to delay in the command models.
Secs == {0, 5}

\* Values of `seconds` passed to delay in the delay model.
AnySecs == {-1, 0, 5, 12}

\* Constructor inputs of the construction model.
NameArgs == {None, Some(""), Some("a"), Some("0:a"), Some("Magbead")}

Mosfets == {0, 1, 2, 10}

Containers == {None, Some("plate")}

StoredData == {<<>>, <<"cal">>}

NewInputs == NameArgs \X Mosfets \X Containers \X StoredData

(* ---------------------------------------------------------------------- *)
(* String formatting                                                       *)
(* ---------------------------------------------------------------------- *)

Digit(d) ==
  CASE d = 0 -> "0" [] d = 1 -> "1" [] d = 2 -> "2" [] d = 3 -> "3"
    [] d = 4 -> "4" [] d = 5 -> "5" [] d = 6 -> "6" [] d = 7 -> "7"
    [] d = 8 -> "8" [] d = 9 -> "9"

RECURSIVE NatStr(_)
NatStr(n) == IF n < 10 THEN Digit(n) ELSE NatStr(n \div 10) \o Digit(n % 10)

\* '{}'.format(n) for an int n
IntStr(n) == IF n < 0 THEN "-" \o NatStr(-n) ELSE NatStr(n)

\* 'M{}'.format(mosfet)
axis_of(mosfet) == "M" \o IntStr(mosfet)

\* self.__class__.__name__
ClassName == "Magbead"

\* A default that is applied to a missing name only, not to an empty one.
name_of_none_only(name) == IF name = None THEN ClassName ELSE name[1]

\* if not name: name = self.__class__.__name__
name_of(name) == IF name = None \/ name[1] = "" THEN ClassName ELSE name[1]

\* A key that leaves the instrument's name out.
calibration_key_of_axis_only(axis, name) == axis \o ":"

\* "{axis}:{instrument_name}".format(axis=self.axis, instrument_name=self.name)
calibration_key_of(axis, name) == axis \o ":" \o name

\* '{axis}:{name}'.format(axis=self.axis, name=self.name)
persisted_key_of(axis, name) == axis \o ":" \o name

\* robot.get_mosfet(mosfet): the handle of the motor at that index
get_mosfet(mosfet) == mosfet

\* str(self.motor)
motor_str(motor) == "mosfet" \o IntStr(motor)

(* ---------------------------------------------------------------------- *)
(* The three commands: setup phase, do phase, description                  *)
(* ---------------------------------------------------------------------- *)

\* A setup phase that forgets to set the flag.
engage_setup_skipped(m) == m

\* engage._setup: self.engaged = True
engage_setup(m) == [m EXCEPT !.engaged = TRUE]

\* A do phase that drives the motor the wrong way.
engage_do_lowers(m) ==
  [self |-> m, motor |-> m.motor, op |-> "disengage", arg |-> None]

\* A do phase that drives the motor of mosfet 0 whatever its own motor is.
engage_do_first_motor(m) ==
  [self |-> m, motor |-> get_mosfet(0), op |-> "engage", arg |-> None]

\* engage._do: self.motor.engage().  A do phase yields the instrument as it
\* leaves it and the motor invocation it makes.
engage_do(m) == [self |-> m, motor |-> m.motor, op |-> "engage", arg |-> None]

\* A description that reports the instrument's state.
engage_description_with_state(m) ==
  "Engaging Magbead at mosfet #" \o motor_str(m.motor)
    \o (IF m.engaged THEN " (engaged)" ELSE "")

\* "Engaging Magbead at mosfet #{}".format(self.motor)
engage_description(m) == "Engaging Magbead at mosfet #" \o motor_str(m.motor)

\* A setup phase that also lets go of the container.
disengage_setup_drops_container(m) ==
  [m EXCEPT !.engaged = FALSE, !.container = None]

\* A setup phase copied from engage without flipping the value.
disengage_setup_copied(m) == [m EXCEPT !.engaged = TRUE]

\* disengage._setup: self.engaged = False
disengage_setup(m) == [m EXCEPT !.engaged = FALSE]

\* A do phase copied from engage without changing the motor action.
disengage_do_raises(m) ==
  [self |-> m, motor |-> m.motor, op |-> "engage", arg |-> None]

\* disengage._do: self.motor.disengage()
disengage_do(m) ==
  [self |-> m, motor |-> m.motor, op |-> "disengage", arg |-> None]

\* The description with the wording of the action it belongs to.
disengage_description_fixed(m) ==
  "Disengaging Magbead at mosfet #" \o motor_str(m.motor)

\* "Engaging Magbead at mosfet #{}".format(self.motor), as in engage
disengage_description(m) == "Engaging Magbead at mosfet #" \o motor_str(m.motor)

\* A setup phase that lowers the flag while waiting.
delay_setup_resets(m) == [m EXCEPT !.engaged = FALSE]

\* delay._setup: pass
delay_setup(m) == m

\* A do phase that refuses to wait a negative time.
delay_do_clamped(m, seconds) ==
  [self |-> m, motor |-> m.motor, op |-> "wait",
   arg |-> Some(IF seconds < 0 THEN 0 ELSE seconds)]

\* delay._do: self.motor.wait(seconds)
delay_do(m, seconds) ==
  [self |-> m, motor |-> m.motor, op |-> "wait", arg |-> Some(seconds)]

\* "Delaying Magbead for {} seconds".format(seconds)
delay_description(seconds) ==
  "Delaying Magbead for " \o IntStr(seconds) \o " seconds"

\* The setup closure of a command of the given kind, applied to its instrument.
RunSetup(kind, m) ==
  CASE kind = "engage" -> engage_setup(m)
    [] kind = "disengage" -> disengage_setup(m)
    [] kind = "delay" -> delay_setup(m)

\* The do closure of a command, applied to its instrument.
RunDo(kind, m, args) ==
  CASE kind = "engage" -> engage_do(m)
    [] kind = "disengage" -> disengage_do(m)
    [] kind = "delay" -> delay_do(m, args[1])

\* One record of the mock motor: the invocation, the command it came from,
\* whether the motor action succeeded, whether it was made inside the call
\* (direct) or by the queue, and the instrument's engaged flag at that moment.
Invocation(call, id, self, ok, direct, engaged) ==
  [motor |-> call.motor, op |-> call.op, arg |-> call.arg, id |-> id,
   self |-> self, ok |-> ok, direct |-> direct, seen |-> engaged]

(* ---------------------------------------------------------------------- *)
(* Initial state: a robot with no instrument, an empty queue               *)
(* ---------------------------------------------------------------------- *)

\* Outcome of a step: what ran ("new", "call", "run"), for which call and
\* instrument, and where a motor failure surfaced ("none", "caller",
\* "executor").
Outcome(op, id, self, raised) ==
  [op |-> op, id |-> id, self |-> self, raised |-> raised]

Init ==
  /\ inst = << >>
  /\ registry = << >>
  /\ calibrations = << >>
  /\ commands = << >>
  /\ log = << >>
  /\ calls = << >>
  /\ descriptors = << >>
  /\ last = Outcome("none", 0, 0, "none")

(* ---------------------------------------------------------------------- *)
(* Magbead.__init__                                                        *)
(* ---------------------------------------------------------------------- *)

\* An instrument that starts out engaged.
Magbead_engaged(name, mosfet, container, data) ==
  [axis |-> axis_of(mosfet),
   motor |-> get_mosfet(mosfet),
   name |-> name_of(name),
   persisted_data |-> data,
   calibration_key |-> calibration_key_of(axis_of(mosfet), name_of(name)),
   container |-> container,
   engaged |-> TRUE,
   name_arg |-> name,
   mosfet_arg |-> mosfet]

\* The object built by __init__(name, mosfet, container); `data` is what
\* load_persisted_data finds in the calibration store.
Magbead(name, mosfet, container, data) ==
  [axis |-> axis_of(mosfet),
   motor |-> get_mosfet(mosfet),
   name |-> name_of(name),
   persisted_data |-> data,
   calibration_key |-> calibration_key_of(axis_of(mosfet), name_of(name)),
   container |-> container,
   engaged |-> FALSE,
   name_arg |-> name,
   mosfet_arg |-> mosfet]

New(i, name, mosfet, container, data) ==
  /\ i \notin DOMAIN inst
  /\ LET m == Magbead(name, mosfet, container, data)
     IN /\ inst' = [j \in DOMAIN inst \cup {i} |-> IF j = i THEN m ELSE inst[j]]
        /\ registry' = [a \in DOMAIN registry \cup {m.axis} |->
                          IF a = m.axis THEN i ELSE registry[a]]
        /\ calibrations' = [j \in DOMAIN calibrations \cup {i} |->
                              IF j = i THEN persisted_key_of(m.axis, m.name)
                              ELSE calibrations[j]]
  /\ last' = Outcome("new", 0, i, "none")
  /\ UNCHANGED <<commands, log, calls, descriptors>>

(* ---------------------------------------------------------------------- *)
(* Instrument.create_command and the three command methods                 *)
(* ---------------------------------------------------------------------- *)

\* create_command(do, setup, description, enqueue): setup runs at once; then
\* the command joins the queue (enqueue true) or its do phase runs at once.
\* The result is the state it leaves and whether it raised.
create_command(i, id, kind, args, description, enqueue, ok) ==
  LET after == [inst EXCEPT ![i] = RunSetup(kind, inst[i])]
      done == RunDo(kind, after[i], args)
      cmd == [id |-> id, kind |-> kind, self |-> i, args |-> args,
              description |-> description]
  IN IF enqueue
     THEN [inst |-> after, commands |-> Append(commands, cmd), log |-> log,
           raised |-> FALSE, cmd |-> cmd]
     ELSE [inst |-> [after EXCEPT ![i] = done.self], commands |-> commands,
           log |-> Append(log, Invocation(done, id, i, ok, TRUE,
                                          after[i].engaged)),
           raised |-> ~ok, cmd |-> cmd]

\* A call of a command method by the program: the caller notes the call it
\* made, the method leaves the state `r` and lets an exception through.
Call(i, kind, args, enqueue, r) ==
  /\ calls' = Append(calls, [kind |-> kind, self |-> i, args |-> args,
                             enqueue |-> enqueue])
  /\ descriptors' = Append(descriptors, r.cmd)
  /\ inst' = r.inst
  /\ commands' = r.commands
  /\ log' = r.log
  /\ last' = Outcome("call", Len(calls) + 1, i,
                     IF r.raised THEN "caller" ELSE "none")
  /\ UNCHANGED <<registry, calibrations>>

\* The motor is not invoked on the queued path, so it cannot fail there.
CanCall(i, enqueue, ok) ==
  /\ i \in DOMAIN inst
  /\ Len(calls) < MaxCalls
  /\ ~ok => ~enqueue

\* engage that ignores its enqueue argument and always runs at once.
engage_runs_now(i, enqueue, ok) ==
  /\ CanCall(i, enqueue, ok)
  /\ Call(i, "engage", None, enqueue,
          create_command(i, Len(calls) + 1, "engage", None,
                         engage_description(inst[i]), FALSE, ok))

\* engage that catches a motor failure and restores the instrument.
engage_rolls_back(i, enqueue, ok) ==
  /\ CanCall(i, enqueue, ok)
  /\ LET r == create_command(i, Len(calls) + 1, "engage", None,
                             engage_description(inst[i]), enqueue, ok)
     IN Call(i, "engage", None, enqueue,
             IF r.raised THEN [r EXCEPT !.inst = inst, !.raised = FALSE] ELSE r)

engage(i, enqueue, ok) ==
  /\ CanCall(i, enqueue, ok)
  /\ Call(i, "engage", None, enqueue,
          create_command(i, Len(calls) + 1, "engage", None,
                         engage_description(inst[i]), enqueue, ok))

\* disengage that submits its queued command twice.
disengage_submits_twice(i, enqueue, ok) ==
  /\ CanCall(i, enqueue, ok)
  /\ LET r == create_command(i, Len(calls) + 1, "disengage", None,
                             disengage_description(inst[i]), enqueue, ok)
     IN Call(i, "disengage", None, enqueue,
             IF enqueue THEN [r EXCEPT !.commands = Append(r.commands, r.cmd)]
             ELSE r)

disengage(i, enqueue, ok) ==
  /\ CanCall(i, enqueue, ok)
  /\ Call(i, "disengage", None, enqueue,
          create_command(i, Len(calls) + 1, "disengage", None,
                         disengage_description(inst[i]), enqueue, ok))

\* delay that ignores its enqueue argument and always queues.
delay_always_queued(i, seconds, enqueue, ok) ==
  /\ CanCall(i, enqueue, ok)
  /\ Call(i, "delay", Some(seconds), enqueue,
          create_command(i, Len(calls) + 1, "delay", Some(seconds),
                         delay_description(seconds), TRUE, ok))

delay(i, seconds, enqueue, ok) ==
  /\ CanCall(i, enqueue, ok)
  /\ Call(i, "delay", Some(seconds), enqueue,
          create_command(i, Len(calls) + 1, "delay", Some(seconds),
                         delay_description(seconds), enqueue, ok))

(* ---------------------------------------------------------------------- *)
(* The robot's queue: executing the next pending command                   *)
(* ---------------------------------------------------------------------- *)

\* The queue's executor takes the first pending command and runs its do
\* phase; a motor failure surfaces in the executor.
run_command(ok) ==
  /\ commands # << >>
  /\ LET cmd == Head(commands)
         done == RunDo(cmd.kind, inst[cmd.self], cmd.args)
     IN /\ inst' = [inst EXCEPT ![cmd.self] = done.self]
        /\ log' = Append(log, Invocation(done, cmd.id, cmd.self, ok, FALSE,
                                         inst[cmd.self].engaged))
        /\ last' = Outcome("run", cmd.id, cmd.self,
                           IF ok THEN "none" ELSE "executor")
  /\ commands' = Tail(commands)
  /\ UNCHANGED <<registry, calibrations, calls, descriptors>>

(* ---------------------------------------------------------------------- *)
(* Specifications                                                          *)
(* ---------------------------------------------------------------------- *)

\* One step of a program that constructs instruments `ids` from `inputs`,
\* calls delay with `secs`, and whose motor actions succeed as `oks` allows.
NextOver(ids, inputs, secs, oks) ==
  \/ \E i \in ids, a \in inputs : New(i, a[1], a[2], a[3], a[4])
  \/ \E i \in ids, enqueue \in BOOLEAN, ok \in oks : engage(i, enqueue, ok)
  \/ \E i \in ids, enqueue \in BOOLEAN, ok \in oks : disengage(i, enqueue, ok)
  \/ \E i \in ids, seconds \in secs, enqueue \in BOOLEAN, ok \in oks :
       delay(i, seconds, enqueue, ok)
  \/ \E ok \in oks : run_command(ok)

\* Two instruments sharing the robot's queue, motors that do not fail.
Next == NextOver(Ids, CmdInputs, Secs, {TRUE})

Spec == Init /\ [][Next]_vars

\* One instrument whose motor actions may fail.
NextFail == NextOver({1}, CmdInputs, {5}, BOOLEAN)

SpecFail == Init /\ [][NextFail]_vars

\* One instrument, delays of any length, motor actions that may fail.
NextDelay == NextOver({1}, CmdInputs, AnySecs, BOOLEAN)

SpecDelay == Init /\ [][NextDelay]_vars

\* Construction only, over the full range of constructor inputs.
NextNew == \E i \in Ids, a \in NewInputs : New(i, a[1], a[2], a[3], a[4])

SpecNew == Init /\ [][NextNew]_vars

(* ---------------------------------------------------------------------- *)
(* Properties                                                              *)
(* ---------------------------------------------------------------------- *)

SetupKinds == {"engage", "disengage"}

\* The motor action each kind of command stands for.
MotorOp(kind) ==
  CASE kind = "engage" -> "engage"
    [] kind = "disengage" -> "disengage"
    [] kind = "delay" -> "wait"

\* The calls (positions in `calls`) whose do phase the motor has seen.
Invoked == {log[k].id : k \in 1..Len(log)}

\* The latest engage/disengage call made on instrument i, 0 if none.
LatestSetup(i) ==
  LET S == {n \in 1..Len(calls) : calls[n].self = i /\ calls[n].kind \in SetupKinds}
  IN IF S = {} THEN 0 ELSE CHOOSE n \in S : \A k \in S : k <= n

\* C1: after engage(enqueue=True) or disengage(enqueue=True) returns, and for
\* as long as no later engage/disengage call was made on the instrument,
\* engaged holds the value of that call (true for engage, false for
\* disengage) although the command is still pending in the queue and the
\* motor has not been invoked for it.
C1_EngagedSetAtSubmission ==
  \A k \in 1..Len(commands) :
    LET c == commands[k]
    IN (c.kind \in SetupKinds /\ LatestSetup(c.self) = c.id)
         => /\ calls[c.id].enqueue
            /\ inst[c.self].engaged = (c.kind = "engage")
            /\ c.id \notin Invoked

\* An engage was queued on a disengaged instrument, nothing has been drained
\* and no motor has moved, and the flag already reads true.
C1_Witness ==
  /\ last.op = "call"
  /\ log = << >>
  /\ Len(commands) = 1
  /\ commands[1].kind = "engage"
  /\ inst[commands[1].self].engaged

\* The ids of the calls made with enqueue=True, in the order they were made.
RECURSIVE QueuedIds(_)
QueuedIds(n) ==
  IF n = 0 THEN << >>
  ELSE IF calls[n].enqueue THEN Append(QueuedIds(n - 1), n) ELSE QueuedIds(n - 1)

\* The motor invocations made by the queue, in the order they were made.
Drained == SelectSeq(log, LAMBDA e : ~e.direct)

\* C2: the motor invocations made while draining the queue are those of the
\* calls made with enqueue=True, in the order of the calls: the n-th drained
\* invocation is the motor action (engage, disengage, wait(seconds)) of the
\* n-th queued call, on its instrument's motor, and the commands still
\* pending are the remaining queued calls in order.
C2_SubmissionOrder ==
  LET q == QueuedIds(Len(calls))
      d == Drained
  IN /\ Len(d) + Len(commands) = Len(q)
     /\ \A n \in 1..Len(d) :
          /\ d[n].id = q[n]
          /\ d[n].op = MotorOp(calls[q[n]].kind)
          /\ d[n].arg = calls[q[n]].args
          /\ d[n].motor = inst[calls[q[n]].self].motor
     /\ \A n \in 1..Len(commands) : commands[n].id = q[Len(d) + n]

\* engage, delay(5), disengage were queued and drained: the motor saw
\* engage, wait(5), disengage.
C2_Witness ==
  /\ Len(log) = 3
  /\ commands = << >>
  /\ \A n \in 1..3 : ~log[n].direct
  /\ log[1].op = "engage"
  /\ log[2].op = "wait" /\ log[2].arg = Some(5)
  /\ log[3].op = "disengage"

\* C3: when engage(enqueue=False) or disengage(enqueue=False) has returned,
\* engaged is true if the call was engage and false if it was disengage,
\* whatever it was before.
C3_EngagedAfterImmediate ==
  (last.op = "call" /\ ~calls[last.id].enqueue /\ calls[last.id].kind \in SetupKinds)
    => inst[last.self].engaged = (calls[last.id].kind = "engage")

\* An immediate disengage has just returned on an instrument that the call
\* before it had engaged.
C3_Witness ==
  /\ last.op = "call"
  /\ last.id >= 2
  /\ calls[last.id] = [kind |-> "disengage", self |-> last.self, args |-> None,
                       enqueue |-> FALSE]
  /\ calls[last.id - 1].kind = "engage"
  /\ calls[last.id - 1].self = last.self
  /\ ~inst[last.self].engaged

\* The step is a call of a command method: the caller's record grew.
IsCall == Len(calls') = Len(calls) + 1

\* The call the step made.
TheCall == calls'[Len(calls')]

\* C4: a call of engage, disengage or delay with enqueue=True appends exactly
\* one command, its own, to the end of the queue and the motor log does not
\* change in that step; the motor invocation of a call made with
\* enqueue=True is only ever made by the queue.
C4_QueuedCallOnlyAppends ==
  [][ /\ (IsCall /\ TheCall.enqueue) =>
           /\ Len(commands') = Len(commands) + 1
           /\ commands' = Append(commands, commands'[Len(commands')])
           /\ commands'[Len(commands')].id = Len(calls')
           /\ commands'[Len(commands')].kind = TheCall.kind
           /\ commands'[Len(commands')].self = TheCall.self
           /\ commands'[Len(commands')].args = TheCall.args
           /\ log' = log
      /\ \A k \in 1..Len(log') : calls'[log'[k].id].enqueue => ~log'[k].direct
    ]_vars

\* engage(True) then disengage(True): the flag ends false, two commands are
\* pending, no motor was invoked.
C4_Witness ==
  /\ Len(calls) = 2
  /\ Len(commands) = 2
  /\ commands[1].kind = "engage" /\ commands[2].kind = "disengage"
  /\ commands[1].self = commands[2].self
  /\ ~inst[commands[1].self].engaged
  /\ log = << >>

\* C5: a call of engage, disengage or delay with enqueue=False adds exactly
\* one invocation to the motor log, that of its own motor action on its own
\* motor, and leaves the queue as it was.
C5_ImmediateCallInvokesOnce ==
  [][ (IsCall /\ ~TheCall.enqueue) =>
        /\ commands' = commands
        /\ Len(log') = Len(log) + 1
        /\ log' = Append(log, log'[Len(log')])
        /\ log'[Len(log')].id = Len(calls')
        /\ log'[Len(log')].direct
        /\ log'[Len(log')].op = MotorOp(TheCall.kind)
        /\ log'[Len(log')].arg = TheCall.args
        /\ log'[Len(log')].motor = inst[TheCall.self].motor
    ]_vars

\* An immediate engage has returned while an earlier command is still
\* pending: one engage invocation, the queue still holds that command.
C5_Witness ==
  /\ last.op = "call"
  /\ calls[last.id].kind = "engage" /\ ~calls[last.id].enqueue
  /\ Len(commands) = 1 /\ commands[1].id < last.id
  /\ Len(log) = 1 /\ log[1].op = "engage" /\ log[1].id = last.id
  /\ inst[last.self].engaged

\* C6: whenever the motor's engage (disengage) action is invoked inside an
\* immediate call, the instrument's engaged flag is already true (false).
C6_SetupBeforeDo ==
  \A k \in 1..Len(log) :
    (log[k].direct /\ log[k].op \in SetupKinds)
      => log[k].seen = (log[k].op = "engage")

\* The first call was an immediate engage on a fresh (disengaged)
\* instrument and the motor saw the flag raised.
C6_Witness ==
  /\ Len(log) >= 1
  /\ log[1].id = 1 /\ log[1].direct /\ log[1].op = "engage" /\ log[1].seen

TimesInvoked(id) == Cardinality({k \in 1..Len(log) : log[k].id = id})

\* C8: when the motor action fails inside an immediate call, the call raises
\* to its caller, the motor was invoked exactly once for it and engaged keeps
\* the value the setup phase wrote; a call with enqueue=True never raises and
\* invokes no motor, and the failure of its motor action surfaces in the
\* queue's executor when the command is executed.
C8_FailurePropagates ==
  /\ last.op = "call" =>
       IF calls[last.id].enqueue
       THEN last.raised = "none" /\ TimesInvoked(last.id) = 0
       ELSE /\ TimesInvoked(last.id) = 1
            /\ log[Len(log)].id = last.id
            /\ last.raised = (IF log[Len(log)].ok THEN "none" ELSE "caller")
            /\ calls[last.id].kind \in SetupKinds
                 => inst[last.self].engaged = (calls[last.id].kind = "engage")
  /\ last.op = "run" =>
       /\ TimesInvoked(last.id) = 1
       /\ log[Len(log)].id = last.id
       /\ last.raised = (IF log[Len(log)].ok THEN "none" ELSE "executor")
  /\ \A k \in 1..Len(log) :
       (~log[k].ok /\ calls[log[k].id].enqueue) => ~log[k].direct

\* The first call, an immediate engage, failed in the motor: the caller got
\* the exception and the flag stays raised.
C8_Witness ==
  /\ last.op = "call" /\ last.id = 1 /\ last.raised = "caller"
  /\ calls[1].kind = "engage"
  /\ ~log[1].ok
  /\ inst[last.self].engaged

\* C9: two instruments constructed with the same mosfet and the same name
\* argument have the same calibration_key, and two instruments whose name
\* (the type name when the argument is omitted or empty) or mosfet differ
\* have different calibration_key values.
C9_CalibrationKeyDeterminism ==
  \A i \in DOMAIN inst, j \in DOMAIN inst :
    /\ (inst[i].name_arg = inst[j].name_arg /\ inst[i].mosfet_arg = inst[j].mosfet_arg)
         => inst[i].calibration_key = inst[j].calibration_key
    /\ (inst[i].name # inst[j].name \/ inst[i].mosfet_arg # inst[j].mosfet_arg)
         => inst[i].calibration_key # inst[j].calibration_key

\* Two instruments exist, one constructed without a name on mosfet 1 and
\* one named on mosfet 10.
C9_Witness ==
  /\ DOMAIN inst = Ids
  /\ \E i \in Ids, j \in Ids :
       /\ inst[i].name_arg = None /\ inst[i].mosfet_arg = 1
       /\ inst[j].name_arg = Some("a") /\ inst[j].mosfet_arg = 10

\* The fields of an instrument fixed by its construction.
Identity(m) ==
  <<m.axis, m.name, m.calibration_key, m.container, m.persisted_data, m.motor>>

\* C10: no step changes the axis, name, calibration_key, container,
\* persisted_data or motor of an instrument that exists.
C10_IdentityIsStable ==
  [][ \A i \in DOMAIN inst :
        i \in DOMAIN inst' /\ Identity(inst'[i]) = Identity(inst[i]) ]_vars

\* An instrument constructed with a container and stored calibration data
\* has been engaged and disengaged, and the queue has executed a command.
C10_Witness ==
  /\ last.op = "run"
  /\ \E n \in 1..Len(calls), k \in 1..Len(calls) :
       /\ calls[n].kind = "engage" /\ calls[k].kind = "disengage"
       /\ calls[n].self = last.self /\ calls[k].self = last.self
  /\ inst[last.self].container = Some("plate")
  /\ inst[last.self].persisted_data = <<"cal">>

\* The pending commands of a call.
Pending(id) == {k \in 1..Len(commands) : commands[k].id = id}

\* C11: delay validates nothing: whatever seconds is (negative, zero,
\* positive), a delay call raises only if the motor's wait was invoked in it
\* and failed; the call is either still pending with the seconds it was given
\* or the motor's wait has been invoked for it, once, with exactly that
\* value, inside the call (enqueue=False) or by the queue (enqueue=True).
C11_DelayForwardsSeconds ==
  /\ \A n \in 1..Len(calls) :
       calls[n].kind = "delay" =>
         /\ \A k \in Pending(n) : commands[k].args = calls[n].args
         /\ Cardinality(Pending(n)) + TimesInvoked(n) = 1
         /\ \A k \in 1..Len(log) :
              log[k].id = n =>
                /\ log[k].op = "wait"
                /\ log[k].arg = calls[n].args
                /\ log[k].direct = ~calls[n].enqueue
  /\ (last.op = "call" /\ calls[last.id].kind = "delay" /\ last.raised # "none")
       => (~calls[last.id].enqueue /\ ~log[Len(log)].ok /\ log[Len(log)].id = last.id)

\* The motor has waited -1 seconds for a queued delay and 0 seconds inside
\* an immediate one, both without failing.
C11_Witness ==
  \E a \in 1..Len(log), b \in 1..Len(log) :
    /\ log[a].op = "wait" /\ log[a].arg = Some(-1) /\ ~log[a].direct /\ log[a].ok
    /\ log[b].op = "wait" /\ log[b].arg = Some(0) /\ log[b].direct /\ log[b].ok

\* C12: two calls of the same method with the same arguments on the same
\* instrument build descriptors with the same description text, whatever
\* their enqueue flags, the engaged flag at each call and the calls between.
C12_DescriptionIsRepeatable ==
  \A a \in 1..Len(calls), b \in 1..Len(calls) :
    (/\ calls[a].kind = calls[b].kind
     /\ calls[a].self = calls[b].self
     /\ calls[a].args = calls[b].args)
      => descriptors[a].description = descriptors[b].description

\* engage was called at once on a disengaged instrument, then a disengage
\* was made, then engage was queued: the first and third descriptors carry
\* the same text.
C12_Witness ==
  /\ Len(calls) = 3
  /\ calls[1] = [kind |-> "engage", self |-> calls[1].self, args |-> None,
                 enqueue |-> FALSE]
  /\ calls[2].kind = "disengage" /\ calls[2].self = calls[1].self
  /\ calls[3] = [kind |-> "engage", self |-> calls[1].self, args |-> None,
                 enqueue |-> TRUE]
  /\ descriptors[1].description = descriptors[3].description

\* The step constructs instrument i.
Constructs(i) == i \notin DOMAIN inst /\ i \in DOMAIN inst'

\* C13: a step that constructs an instrument leaves it disengaged, and
\* leaves the queue, the motor log and the descriptors built so far as they
\* were.
C13_ConstructionIsQuiet ==
  [][ \A i \in Ids :
        Constructs(i) =>
          /\ ~inst'[i].engaged
          /\ commands' = commands
          /\ log' = log
          /\ descriptors' = descriptors ]_vars

\* A second instrument has just been constructed while the first one is
\* engaged, has a command pending and has moved its motor.
C13_Witness ==
  /\ last.op = "new"
  /\ ~inst[last.self].engaged
  /\ commands # << >>
  /\ log # << >>
  /\ \E j \in DOMAIN inst : j # last.self /\ inst[j].engaged

\* C14: an instrument constructed without a name or with an empty name is
\* named after its type; every instrument's calibration_key is its axis, a
\* colon and its name, and the key given to init_calibrations is the same
\* string.
C14_DefaultNameAndKeys ==
  \A i \in DOMAIN inst :
    /\ (inst[i].name_arg = None \/ inst[i].name_arg = Some(""))
         => inst[i].name = "Magbead"
    /\ (inst[i].name_arg # None /\ inst[i].name_arg # Some(""))
         => inst[i].name = inst[i].name_arg[1]
    /\ inst[i].axis = "M" \o IntStr(inst[i].mosfet_arg)
    /\ inst[i].calibration_key = inst[i].axis \o ":" \o inst[i].name
    /\ calibrations[i] = inst[i].calibration_key

\* One instrument was constructed without a name on mosfet 10, another with
\* an empty name on mosfet 2.
C14_Witness ==
  /\ DOMAIN inst = Ids
  /\ \E i \in Ids, j \in Ids :
       /\ inst[i].name_arg = None /\ inst[i].calibration_key = "M10:Magbead"
       /\ calibrations[i] = "M10:Magbead"
       /\ inst[j].name_arg = Some("") /\ inst[j].calibration_key = "M2:Magbead"
       /\ calibrations[j] = "M2:Magbead"

\* C15: a disengage descriptor carries the text of an engage descriptor of
\* the same instrument, "Engaging Magbead at mosfet #" followed by the
\* motor.
C15_DisengageSaysEngaging ==
  \A a \in 1..Len(calls) :
    calls[a].kind = "disengage" =>
      /\ descriptors[a].description
           = "Engaging Magbead at mosfet #" \o motor_str(inst[calls[a].self].motor)
      /\ \A b \in 1..Len(calls) :
           (calls[b].kind = "engage" /\ calls[b].self = calls[a].self)
             => descriptors[b].description = descriptors[a].description

\* An engage and a disengage of one instrument are pending with the same
\* description.
C15_Witness ==
  /\ Len(commands) = 2
  /\ commands[1].kind = "engage" /\ commands[2].kind = "disengage"
  /\ commands[1].self = commands[2].self
  /\ commands[1].description = commands[2].description

\* The engage/disengage invocations a motor has seen, in order.
Moves(motor) ==
  SelectSeq(log, LAMBDA e : e.motor = motor /\ e.op \in SetupKinds)

\* Instrument i is the only one bound to its motor.
Exclusive(i) == \A j \in DOMAIN inst : j # i => inst[j].motor # inst[i].motor

\* The motor of instrument i was last driven the way its engaged flag says.
MotorAgrees(i) ==
  LET L == Moves(inst[i].motor)
  IN L # << >> /\ (L[Len(L)].op = "engage") = inst[i].engaged

\* The engage/disengage invocations made for instrument i came in the order
\* of its calls: no engage/disengage was run at once while an earlier one of
\* the instrument was still pending.
InCallOrder(i) ==
  \A a \in 1..Len(log), b \in 1..Len(log) :
    (/\ a < b
     /\ log[a].self = i /\ log[b].self = i
     /\ log[a].op \in SetupKinds /\ log[b].op \in SetupKinds)
      => log[a].id < log[b].id

AllKinds == {"engage", "disengage", "delay"}

\* C17: every call is at any time either pending once and not yet invoked,
\* or no longer pending and invoked exactly once; so when the queue is
\* empty the motor has seen, for each kind, as many invocations as calls of
\* that kind were made, whatever their enqueue flags.
C17_ExactlyOneInvocation ==
  /\ \A n \in 1..Len(calls) :
       /\ Cardinality(Pending(n)) + TimesInvoked(n) = 1
       /\ \A k \in 1..Len(log) : log[k].id = n => log[k].op = MotorOp(calls[n].kind)
  /\ \A k \in 1..Len(log) : log[k].id \in 1..Len(calls)
  /\ \A k \in 1..Len(commands) : commands[k].id \in 1..Len(calls)
  /\ commands = << >> =>
       \A kind \in AllKinds :
         Cardinality({k \in 1..Len(log) : log[k].op = MotorOp(kind)})
           = Cardinality({n \in 1..Len(calls) : calls[n].kind = kind})

\* Three calls, one of each kind, some queued and some immediate, have all
\* reached the motor and the queue is empty.
C17_Witness ==
  /\ commands = << >>
  /\ Len(calls) = 3 /\ Len(log) = 3
  /\ {calls[n].kind : n \in 1..3} = AllKinds
  /\ \E a \in 1..3, b \in 1..3 : log[a].direct /\ ~log[b].direct

\* C18: a step made for one instrument (a call on it, the execution of one
\* of its commands, its construction) leaves every other instrument as it
\* was; every motor invocation is made for the instrument of its call and
\* on that instrument's motor; and the queue's invocations come in the order
\* in which the calls were made, across instruments.
C18_InstrumentsAreIsolated ==
  [][ /\ \A i \in DOMAIN inst :
           last'.self # i => (i \in DOMAIN inst' /\ inst'[i] = inst[i])
      /\ \A k \in 1..Len(log') :
           /\ log'[k].self = calls'[log'[k].id].self
           /\ log'[k].motor = inst'[log'[k].self].motor
      /\ \A a \in 1..Len(log'), b \in 1..Len(log') :
           (a < b /\ ~log'[a].direct /\ ~log'[b].direct) => log'[a].id < log'[b].id
    ]_vars

\* Two instruments on mosfets 0 and 1 queued commands in turn and the queue
\* executed them in that order, each on its own motor; one instrument is
\* engaged, the other is not.
C18_Witness ==
  /\ DOMAIN inst = Ids
  /\ inst[1].motor # inst[2].motor
  /\ Len(log) = 3
  /\ \A k \in 1..3 : ~log[k].direct /\ log[k].id = k
  /\ log[1].self # log[2].self /\ log[3].self = log[1].self
  /\ log[1].op = "engage" /\ log[2].op = "engage" /\ log[3].op = "disengage"
  /\ log[1].motor # log[2].motor
  /\ inst[log[2].self].engaged /\ ~inst[log[1].self].engaged

====
